---- MODULE Spec2Model ----
(***************************************************************************)
(* The streaming voice pipeline of epic-backend:                           *)
(* OpenAIController.handleStreamingVoiceRequest and                        *)
(* OpenAIService.generateStreamingVoiceCompletion / convertTextToSpeech /  *)
(* findNaturalBreakPoint.                                                  *)
(*                                                                         *)
(* Text is a sequence of one-character strings.  A JavaScript string       *)
(* offset o (0-based) is the length of the prefix SubSeq(s, 1, o).         *)
(***************************************************************************)
EXTENDS Integers, Sequences, FiniteSets, TLC

\* ------------------------------------------------------------------ text

\* The alphabet of the modelled text: a letter, the space, one sentence
\* terminal and one pause mark.
Chars == {"a", " ", ".", ","}

\* \s of the two regular expressions, restricted to the alphabet.
Whitespace == {" "}

\* [.!?] of sentenceEndings, restricted to the alphabet.
SentencePunct == {"."}

\* [,;:] of pausePoints, restricted to the alphabet.
PausePunct == {","}

\* String.prototype.substring(0, o).
Prefix(s, o) == SubSeq(s, 1, o)

\* String.prototype.substring(o).
Suffix(s, o) == SubSeq(s, o + 1, Len(s))

\* String.prototype.trim(): leading and trailing whitespace removed.
RECURSIVE TrimStart(_)
TrimStart(s) ==
  IF s # <<>> /\ Head(s) \in Whitespace THEN TrimStart(Tail(s)) ELSE s

RECURSIVE TrimEnd(_)
TrimEnd(s) ==
  IF s # <<>> /\ s[Len(s)] \in Whitespace
  THEN TrimEnd(SubSeq(s, 1, Len(s) - 1)) ELSE s

Trim(s) == TrimEnd(TrimStart(s))

\* String.prototype.split(' '): the pieces between single spaces; n spaces
\* give n + 1 pieces, empty pieces included.
RECURSIVE Split(_)
Split(s) ==
  IF \A i \in 1..Len(s) : s[i] # " " THEN <<s>>
  ELSE LET i == CHOOSE k \in 1..Len(s) :
                  s[k] = " " /\ \A j \in 1..(k - 1) : s[j] # " "
       IN <<SubSeq(s, 1, i - 1)>> \o Split(SubSeq(s, i + 1, Len(s)))

\* Array.prototype.join(' ').
RECURSIVE Join(_)
Join(ws) ==
  IF ws = <<>> THEN <<>>
  ELSE IF Len(ws) = 1 THEN ws[1]
  ELSE ws[1] \o <<" ">> \o Join(Tail(ws))

\* Array.prototype.slice(from) and slice(0, to) on the word array.
SliceTo(ws, n) == SubSeq(ws, 1, IF n < Len(ws) THEN n ELSE Len(ws))
SliceFrom(ws, n) == SubSeq(ws, n + 1, Len(ws))

\* text.split(' ').length
WordCount(s) == Len(Split(s))

\* ------------------------------------------------- findNaturalBreakPoint

\* The 1-based positions at which  /[P]\s+/g  matches in s, in scan order:
\* a mark of P directly followed by whitespace.  A match ends in whitespace,
\* so successive matches of the global regex never overlap.
Matches(s, P) ==
  { i \in 1..(Len(s) - 1) : s[i] \in P /\ s[i + 1] \in Whitespace }

\* Length of the whitespace run that starts at position i of s.
RECURSIVE SpaceRun(_, _)
SpaceRun(s, i) ==
  IF i <= Len(s) /\ s[i] \in Whitespace THEN 1 + SpaceRun(s, i + 1) ELSE 0

\* The offset just after the mark, before the whitespace matched with it.
MatchEndAtMark(s, i) == i

\* match.index + match[0].length for the match whose mark is at position i.
MatchEnd(s, i) == i + SpaceRun(s, i + 1)

\* text.substring(0, match.index).split(' ').length
WordCountAtBreak(s, i) == WordCount(Prefix(s, i - 1))

\* One  while ((match = re.exec(text)) !== null)  loop of
\* findNaturalBreakPoint over the marks P with the window
\* [lo/10 * target, hi/10 * target]:  <<returned, value>>, where returned
\* says the loop hit its `return` and value is the offset returned, or the
\* loop ran out and value is the bestBreak it leaves.
RECURSIVE ScanBreaks(_, _, _, _, _, _, _)
ScanBreaks(s, P, target, lo, hi, from, bestBreak) ==
  LET later == { i \in Matches(s, P) : i >= from } IN
  IF later = {} THEN <<FALSE, bestBreak>>
  ELSE LET i  == CHOOSE k \in later : \A j \in later : k <= j
           wc == WordCountAtBreak(s, i)
       IN IF 10 * wc >= lo * target /\ 10 * wc <= hi * target
          THEN <<TRUE, MatchEnd(s, i)>>
          ELSE ScanBreaks(s, P, target, lo, hi, i + 1,
                          IF wc <= target THEN MatchEnd(s, i) ELSE bestBreak)

findNaturalBreakPoint(text, targetLength) ==
  IF WordCount(text) < targetLength THEN -1
  ELSE LET sent == ScanBreaks(text, SentencePunct, targetLength, 7, 13, 1, -1)
       IN IF sent[1] THEN sent[2]
          ELSE IF sent[2] # -1 THEN sent[2]
          ELSE ScanBreaks(text, PausePunct, targetLength, 8, 12, 1, -1)[2]

\* estimateAudioDuration(text) for a string: Math.round(wordCount / 2.5 * 1000).
estimateAudioDuration(text) == 400 * WordCount(text)

\* ---------------------------------------------------------------- input

\* Largest number of upstream lines one chat-completion stream delivers.
MaxLines == 3

\* delta.content values of the modelled stream messages.
Contents == { <<"a">>, <<" ", "a">>, <<".", " ">> }

\* The lines the upstream body is made of:
\*   data   a  data: {...}  line; choice says parsed.choices[0] exists (its
\*          delta.content is content, <<>> when absent or empty), usage is
\*          parsed.usage.total_tokens, 0 when the message has no usage;
\*   done   data: [DONE];
\*   junk   a line that does not start with "data: " (the blank line
\*          between two messages) or whose JSON does not parse.
DataLines ==
  { [kind |-> "data", choice |-> TRUE, content |-> c, usage |-> 0] : c \in Contents }
  \cup { [kind |-> "data", choice |-> TRUE, content |-> <<>>, usage |-> 7],
         [kind |-> "data", choice |-> FALSE, content |-> <<>>, usage |-> 9] }

DoneLine == [kind |-> "done", choice |-> FALSE, content |-> <<>>, usage |-> 0]

JunkLine == [kind |-> "junk", choice |-> FALSE, content |-> <<>>, usage |-> 0]

Lines == DataLines \cup {JunkLine, DoneLine}

\* The non-empty sequences of at most n lines in which data: [DONE], if
\* present, is the last line: the API sends nothing after it.
Batches(n) ==
  UNION { { b \in [1..k -> Lines] : \A i \in 1..(k - 1) : b[i] # DoneLine }
          : k \in 1..n }

\* Effective voice settings (request value or default) of the modelled
\* requests, scaled down to the modelled texts.
VoiceSettings ==
  { [chunkSize |-> 2, minChunkSize |-> 1, maxChunkSize |-> 4, naturalBreaks |-> TRUE],
    [chunkSize |-> 2, minChunkSize |-> 1, maxChunkSize |-> 4, naturalBreaks |-> FALSE],
    [chunkSize |-> 3, minChunkSize |-> 3, maxChunkSize |-> 2, naturalBreaks |-> TRUE] }

Methods == {"POST", "OPTIONS", "GET"}

\* req.body.prompt: a non-empty string, the empty string, absent, or a
\* value that is not a string; "nobody" is a request that came without a
\* parsed body, req.body being undefined.
Prompts == {"string", "empty", "missing", "nonstring", "nobody"}

\* ---------------------------------------------------------------- state

VARIABLES
  st,        \* the request: response object, orchestrator locals, history
  voiceKey,  \* process.env.VOICE_KEY is set
  st2,       \* a second request served by the same service instance
  call,      \* one makeAPICall: its loop counter and what it did
  probe,     \* one call of findNaturalBreakPoint: arguments and result
  db         \* the events and comments collections and the requests on them

vars == <<st, voiceKey, st2, call, probe, db>>

\* One res.write: the "event: <name>\n" line or the "data: <json>\n\n" line.
EventLine(name) == [w |-> "event", ev |-> name]
DataLine(name, payload) == [w |-> "data", ev |-> name, payload |-> payload]

Write(s, x) == [s EXCEPT !.channel = Append(@, x)]

Log(s, x) == [s EXCEPT !.trace = Append(@, x)]

InitialRequest ==
  [ pc              |-> "idle",
    \* res
    statusCode      |-> 0,
    json            |-> "none",
    sse             |-> FALSE,
    channel         |-> <<>>,
    ended           |-> FALSE,
    \* locals of generateStreamingVoiceCompletion
    settings        |-> CHOOSE v \in VoiceSettings : TRUE,
    buffer          |-> <<>>,
    lines           |-> <<>>,
    textBuffer      |-> <<>>,
    totalTokens     |-> 0,
    chunkIndex      |-> 0,
    audioChunkTimes |-> <<>>,
    flushing        |-> FALSE,
    released        |-> FALSE,
    inflight        |-> <<>>,
    \* history
    request         |-> [method |-> "none", prompt |-> "none",
                         given |-> [isNull |-> FALSE, options |-> <<>>]],
    client          |-> [gone |-> FALSE, delivered |-> 0, speakCalls |-> 0],
    opens           |-> 0,
    body            |-> <<>>,
    wire            |-> <<>>,
    taken           |-> 0,
    carried         |-> FALSE,
    delivered       |-> <<>>,
    upstream        |-> "open",
    handed          |-> <<>>,
    speakCalls      |-> 0,
    trace           |-> <<>> ]

\* findNaturalBreakPoint before it is called.
InitialProbe == [text |-> <<>>, targetLength |-> 1, called |-> FALSE, result |-> -1]

\* The empty collections, no request on them yet.
InitialStore ==
  [ events     |-> {},
    comments   |-> {},
    lastEvent  |-> 0,
    lastComment |-> 0,
    requests   |-> <<>> ]

\* makeAPICall before it is called.
InitialCall ==
  [ pc       |-> "idle",
    retries  |-> 0,
    attempt  |-> 0,
    attempts |-> <<>>,
    delays   |-> <<>>,
    result   |-> "none" ]

Init ==
  /\ st = InitialRequest
  /\ voiceKey \in BOOLEAN
  /\ st2 = InitialRequest
  /\ call = InitialCall
  /\ probe = InitialProbe
  /\ db = InitialStore

\* ------------------------------------------------------------ observations

Last(q) == q[Len(q)]

\* <<0, 1, ..., n-1>>
UpTo(n) == [i \in 1..n |-> i - 1]

\* The data lines of the events named in names, in channel order.
DataOf(ch, names) == SelectSeq(ch, LAMBDA x : x.w = "data" /\ x.ev \in names)

\* ------------------------------------------- generateStreamingVoiceCompletion

\* The catch block without its res.end().
CatchNoEnd(s, message) ==
  [ [s EXCEPT !.channel = @ \o << [w |-> "event", ev |-> "error"],
                                  [w |-> "data", ev |-> "error",
                                   payload |-> [message |-> message]] >>]
      EXCEPT !.pc = "returned" ]

\* catch (error) { ... } of generateStreamingVoiceCompletion: one error
\* event, then res.end().
Catch(s, message) ==
  [ Write(Write(s, EventLine("error")),
          DataLine("error", [message |-> message]))
      EXCEPT !.ended = TRUE, !.pc = "returned" ]

\* finally { reader.releaseLock(); }
ReleaseLock(s) == [s EXCEPT !.released = TRUE]

\* Building the payload of the done event throws: the reducer of
\* totalAudioDuration calls estimateAudioDuration(chunk.wordCount * 5), a
\* number, and text.split is not a function of a number.  The reducer runs
\* once per recorded chunk timing, so it throws as soon as there is one.
DonePayloadThrows(s) == s.audioChunkTimes # <<>>

\* if (data === '[DONE]') { ... return; }
OnDone(s) ==
  LET s1 == Write([s EXCEPT !.upstream = "sentinel"], EventLine("done")) IN
  IF DonePayloadThrows(s1)
  THEN Catch(ReleaseLock(s1), "text.split is not a function")
  ELSE [ ReleaseLock(Write(s1, DataLine("done",
                 [totalTokens |-> s1.totalTokens, totalChunks |-> s1.chunkIndex])))
           EXCEPT !.ended = TRUE, !.pc = "returned" ]

\* The chunk decision without the test of minChunkSize.
ChunkDecisionNoMin(textBuffer, v) ==
  LET words      == Split(textBuffer)
      breakIndex == findNaturalBreakPoint(textBuffer, v.chunkSize)
  IN IF v.naturalBreaks /\ breakIndex > 0
     THEN [ shouldCreateChunk |-> TRUE,
            chunkText  |-> Trim(Prefix(textBuffer, breakIndex)),
            textBuffer |-> Trim(Suffix(textBuffer, breakIndex)) ]
     ELSE IF Len(words) >= v.chunkSize \/ Len(words) >= v.maxChunkSize
     THEN LET actualChunkSize ==
                IF Len(words) < v.chunkSize THEN Len(words) ELSE v.chunkSize
          IN [ shouldCreateChunk |-> TRUE,
               chunkText  |-> Join(SliceTo(words, actualChunkSize)),
               textBuffer |-> Join(SliceFrom(words, actualChunkSize)) ]
     ELSE [ shouldCreateChunk |-> FALSE, chunkText |-> <<>>,
            textBuffer |-> textBuffer ]

\* The chunk decision after a token was appended: shouldCreateChunk,
\* chunkText and the textBuffer left.
ChunkDecision(textBuffer, v) ==
  LET words      == Split(textBuffer)
      breakIndex == findNaturalBreakPoint(textBuffer, v.chunkSize)
  IN IF v.naturalBreaks /\ Len(words) >= v.minChunkSize /\ breakIndex > 0
     THEN [ shouldCreateChunk |-> TRUE,
            chunkText  |-> Trim(Prefix(textBuffer, breakIndex)),
            textBuffer |-> Trim(Suffix(textBuffer, breakIndex)) ]
     ELSE IF Len(words) >= v.chunkSize \/ Len(words) >= v.maxChunkSize
     THEN LET actualChunkSize ==
                IF Len(words) < v.chunkSize THEN Len(words) ELSE v.chunkSize
          IN [ shouldCreateChunk |-> TRUE,
               chunkText  |-> Join(SliceTo(words, actualChunkSize)),
               textBuffer |-> Join(SliceFrom(words, actualChunkSize)) ]
     ELSE [ shouldCreateChunk |-> FALSE, chunkText |-> <<>>,
            textBuffer |-> textBuffer ]

\* if (parsed.usage) totalTokens = parsed.usage.total_tokens, inside
\* if (parsed.choices && parsed.choices[0]); then the for loop moves on.
FinishLine(s) ==
  LET line == Head(s.lines) IN
  [ s EXCEPT !.totalTokens =
               IF line.kind = "data" /\ line.choice /\ line.usage > 0
               THEN line.usage ELSE @,
             !.lines = Tail(@) ]

RECURSIVE ProcessLines(_, _)

\* The continuation without its chunkIndex++.
ContinueNoIncrement(s, key) ==
  LET chunkText == s.handed[Len(s.handed)].text
      s1 == [ s EXCEPT !.audioChunkTimes =
                         Append(@, [chunkIndex |-> s.chunkIndex,
                                    wordCount  |-> WordCount(chunkText)]) ]
  IN IF s.flushing
     THEN [ReleaseLock(s1) EXCEPT !.pc = "returned"]
     ELSE ProcessLines(FinishLine(s1), key)

\* What follows the awaited convertTextToSpeech: the chunk timing is pushed
\* and chunkIndex incremented; the flush then breaks out of the read loop and
\* the function returns, a streaming chunk goes on with the line's usage and
\* the remaining lines.
Continue(s, key) ==
  LET chunkText == s.handed[Len(s.handed)].text
      s1 == [ s EXCEPT !.audioChunkTimes =
                         Append(@, [chunkIndex |-> s.chunkIndex,
                                    wordCount  |-> WordCount(chunkText)]),
                       !.chunkIndex = @ + 1 ]
  IN IF s.flushing
     THEN [ReleaseLock(s1) EXCEPT !.pc = "returned"]
     ELSE ProcessLines(FinishLine(s1), key)

\* A missing await: the caller goes on while the synthesis call is in flight.
FireAndForget(s, key) == Continue(s, key)

\* await this.convertTextToSpeech(...): the caller is suspended until the
\* call has settled.
AwaitSpeech(s, key) == [s EXCEPT !.pc = "awaitSpeak"]

\* convertTextToSpeech(text, res, chunkIndex, ...) up to its first await:
\* without VOICE_KEY it returns at once and writes nothing, otherwise it
\* issues the request to the speech API.
HandChunk(s, text, key) ==
  LET c  == [chunkIndex |-> s.chunkIndex, text |-> text]
      s1 == Log([s EXCEPT !.handed = Append(@, c)],
                [t |-> "handed", chunkIndex |-> c.chunkIndex])
  IN IF ~key
     THEN Continue(Log(s1, [t |-> "settled", chunkIndex |-> c.chunkIndex,
                            ev |-> "none"]), key)
     ELSE AwaitSpeech([ s1 EXCEPT
                          !.inflight = Append(@, [chunkIndex |-> c.chunkIndex,
                                                  text |-> c.text,
                                                  stage |-> "fetch"]),
                          !.speakCalls = @ + 1 ], key)

\* The text event carrying the accumulated buffer instead of the delta.
OnContentBuffered(s, content, key) ==
  LET s1 == Log(Write(Write([s EXCEPT !.textBuffer = @ \o content],
                            EventLine("text")),
                      DataLine("text", [content |-> s.textBuffer \o content])),
                [t |-> "text"])
      d  == ChunkDecision(s1.textBuffer, s1.settings)
      s2 == [s1 EXCEPT !.textBuffer = d.textBuffer]
  IN IF d.shouldCreateChunk /\ d.chunkText # <<>>
     THEN HandChunk(s2, d.chunkText, key)
     ELSE ProcessLines(FinishLine(s2), key)

\* if (delta.content) { ... }: the token is appended, its text event written,
\* and the chunk decision taken.
OnContent(s, content, key) ==
  LET s1 == Log(Write(Write([s EXCEPT !.textBuffer = @ \o content],
                            EventLine("text")),
                      DataLine("text", [content |-> content])),
                [t |-> "text"])
      d  == ChunkDecision(s1.textBuffer, s1.settings)
      s2 == [s1 EXCEPT !.textBuffer = d.textBuffer]
  IN IF d.shouldCreateChunk /\ d.chunkText # <<>>
     THEN HandChunk(s2, d.chunkText, key)
     ELSE ProcessLines(FinishLine(s2), key)

\* for (const line of lines) { ... }, from the first line not yet processed
\* to the next suspension, the return at [DONE], or the end of the batch.
ProcessLines(s, key) ==
  IF s.lines = <<>> THEN [s EXCEPT !.pc = "awaitRead"]
  ELSE LET line == Head(s.lines) IN
       IF line.kind = "done" THEN OnDone(s)
       ELSE IF line.kind = "data" /\ line.choice /\ line.content # <<>>
       THEN OnContent(s, line.content, key)
       ELSE ProcessLines(FinishLine(s), key)

\* The caller suspended on the settled call resumes.
Resume(s, key) == IF s.pc = "awaitSpeak" THEN Continue(s, key) ELSE s

\* ------------------------------------------------------ convertTextToSpeech

\* A synthesis failure that is not caught where it happens and reaches the
\* catch block of generateStreamingVoiceCompletion.
SpeechFailedPropagates(s, c, error) == Catch(ReleaseLock(s), error)

\* if (!response.ok) { ... return; }  and  catch (error) { ... }: one
\* audio-error event for the chunk.
SpeechFailed(s, c, error) ==
  Log(Write(Write(s, EventLine("audio-error")),
            DataLine("audio-error",
                     [chunkIndex |-> c.chunkIndex, text |-> c.text,
                      error |-> error])),
      [t |-> "settled", chunkIndex |-> c.chunkIndex, ev |-> "audio-error"])

\* The audio of a chunk arrived and nothing is written.
SpeechDoneSilent(s, c) ==
  Log(s, [t |-> "settled", chunkIndex |-> c.chunkIndex, ev |-> "audio"])

\* The audio event of a chunk whose audio arrived.
SpeechDone(s, c) ==
  Log(Write(Write(s, EventLine("audio")),
            DataLine("audio", [chunkIndex |-> c.chunkIndex, text |-> c.text])),
      [t |-> "settled", chunkIndex |-> c.chunkIndex, ev |-> "audio"])

RemoveAt(q, i) == SubSeq(q, 1, i - 1) \o SubSeq(q, i + 1, Len(q))

\* ------------------------------------------------------------------ steps

\* catch (error) { ... } of handleStreamingVoiceRequest: one error event is
\* written to the response as it is, then res.end().
ControllerCatch(s) ==
  [ Write(Write(s, EventLine("error")),
          DataLine("error",
                   [message |-> "Failed to process streaming voice request"]))
      EXCEPT !.ended = TRUE, !.pc = "returned" ]

\* OpenAIController.handleStreamingVoiceRequest up to the first await of
\* generateStreamingVoiceCompletion.  Destructuring req.body throws inside
\* the try block when the request came without a parsed body.
handleStreamingVoiceRequest(s, method, prompt, v) ==
  LET s0 == [s EXCEPT !.request.method = method, !.request.prompt = prompt] IN
  IF method = "OPTIONS"
  THEN [s0 EXCEPT !.statusCode = 200, !.ended = TRUE, !.pc = "returned"]
  ELSE IF method # "POST"
  THEN [s0 EXCEPT !.statusCode = 405, !.json = "Method not allowed",
                  !.ended = TRUE, !.pc = "returned"]
  ELSE IF prompt = "nobody"
  THEN ControllerCatch(s0)
  ELSE IF prompt # "string"
  THEN [s0 EXCEPT !.statusCode = 400, !.json = "Invalid request",
                  !.ended = TRUE, !.pc = "returned"]
  ELSE [ Write(Write([s0 EXCEPT !.sse = TRUE, !.settings = v],
                     EventLine("start")),
               DataLine("start", [voiceSettings |-> v]))
           EXCEPT !.opens = @ + 1, !.pc = "awaitFetch" ]

\* The fetch of the chat completion has settled: the body is read, or
\* the !response.ok throw or the rejection reaches the catch block.
FetchSettled(s, outcome) ==
  IF outcome = "ok"
  THEN [s EXCEPT !.pc = "awaitRead"]
  ELSE Catch([s EXCEPT !.upstream = "rejected"],
             IF outcome = "notOk" THEN "OpenAI API error" ELSE "fetch failed")

\* reader.read() has resolved with bytes that complete the lines of batch.
ReadResolved(s, batch, key) ==
  ProcessLines([s EXCEPT !.lines = batch, !.delivered = @ \o batch], key)

\* reader.read() has resolved with done: the residual text is flushed.
ReadEnded(s, key) ==
  LET s1 == [s EXCEPT !.upstream = "eof"] IN
  IF Trim(s1.textBuffer) # <<>>
  THEN HandChunk([s1 EXCEPT !.flushing = TRUE], Trim(s1.textBuffer), key)
  ELSE [ReleaseLock(s1) EXCEPT !.pc = "returned"]

\* reader.read() has rejected.
ReadRejected(s) ==
  Catch(ReleaseLock([s EXCEPT !.upstream = "readError"]), "read failed")

\* The request to the speech API has settled: a 2xx response, another
\* status, or a rejection.
SpeakSettled(s, i, outcome, key) ==
  LET c    == s.inflight[i]
      gone == [s EXCEPT !.inflight = RemoveAt(@, i)]
  IN IF outcome = "ok"
     THEN [s EXCEPT !.inflight[i].stage = "body"]
     ELSE Resume(SpeechFailed(gone, c,
                   IF outcome = "non2xx" THEN "TTS API error" ELSE "thrown"),
                 key)

\* response.arrayBuffer() has settled.
BodySettled(s, i, ok, key) ==
  LET c    == s.inflight[i]
      gone == [s EXCEPT !.inflight = RemoveAt(@, i)]
  IN Resume(IF ok THEN SpeechDone(gone, c)
                  ELSE SpeechFailed(gone, c, "thrown"),
            key)

\* ---------------------------------------------------------------- actions

HandleRequest(method, prompt, v) ==
  /\ st.pc = "idle"
  /\ st' = handleStreamingVoiceRequest(st, method, prompt, v)
  /\ UNCHANGED <<voiceKey, st2, call, probe, db>>

FetchResponds(outcome) ==
  /\ st.pc = "awaitFetch"
  /\ st' = FetchSettled(st, outcome)
  /\ UNCHANGED <<voiceKey, st2, call, probe, db>>

ReadLines(batch) ==
  /\ st.pc = "awaitRead"
  /\ Len(st.delivered) + Len(batch) <= MaxLines
  /\ st' = ReadResolved(st, batch, voiceKey)
  /\ UNCHANGED <<voiceKey, st2, call, probe, db>>

ReadDone ==
  /\ st.pc = "awaitRead"
  /\ st' = ReadEnded(st, voiceKey)
  /\ UNCHANGED <<voiceKey, st2, call, probe, db>>

ReadFails ==
  /\ st.pc = "awaitRead"
  /\ st' = ReadRejected(st)
  /\ UNCHANGED <<voiceKey, st2, call, probe, db>>

SpeakResponds(i, outcome) ==
  /\ i \in DOMAIN st.inflight
  /\ st.inflight[i].stage = "fetch"
  /\ st' = SpeakSettled(st, i, outcome, voiceKey)
  /\ UNCHANGED <<voiceKey, st2, call, probe, db>>

AudioArrives(i, ok) ==
  /\ i \in DOMAIN st.inflight
  /\ st.inflight[i].stage = "body"
  /\ st' = BodySettled(st, i, ok, voiceKey)
  /\ UNCHANGED <<voiceKey, st2, call, probe, db>>

Next ==
  \/ \E m \in Methods, p \in Prompts, v \in VoiceSettings : HandleRequest(m, p, v)
  \/ \E o \in {"ok", "notOk", "reject"} : FetchResponds(o)
  \/ \E b \in Batches(MaxLines - Len(st.delivered)) : ReadLines(b)
  \/ ReadDone
  \/ ReadFails
  \/ \E i \in DOMAIN st.inflight, o \in {"ok", "non2xx", "reject"} :
       SpeakResponds(i, o)
  \/ \E i \in DOMAIN st.inflight, ok \in BOOLEAN : AudioArrives(i, ok)

Spec == Init /\ [][Next]_vars

\* The client goes away while the channel is open.  Nothing in the
\* controller or the service listens for the close of the request or the
\* response, so no variable of the orchestrator changes; what had been
\* consumed and synthesised by then is noted.
ClientDisconnects ==
  /\ DataOf(st.channel, {"start"}) # <<>>
  /\ ~st.ended
  /\ ~st.client.gone
  /\ st' = [st EXCEPT !.client = [gone       |-> TRUE,
                                  delivered  |-> Len(st.delivered),
                                  speakCalls |-> st.speakCalls]]
  /\ UNCHANGED <<voiceKey, st2, call, probe, db>>

NextClient == Next \/ ClientDisconnects

SpecClient == Init /\ [][NextClient]_vars

\* ------------------------------------------------------ the chunk decision

\* The longest delta, in pieces.
MaxPieces == 5

\* What a delta is made of: a word, a word and a space, a word that ends a
\* sentence or a clause, a space.
Pieces == { <<"a">>, <<"a", " ">>, <<"a", ".", " ">>, <<"a", ",", " ">>, <<" ">> }

RECURSIVE TextsOf(_)
TextsOf(n) ==
  IF n = 0 THEN { <<>> }
  ELSE LET shorter == TextsOf(n - 1)
       IN shorter \cup { t \o p : t \in shorter, p \in Pieces }

\* delta.content of one token of any size up to MaxPieces pieces.
Texts == TextsOf(MaxPieces) \ { <<>> }

\* voiceSettings of the request: chunkSize below, at and above the word
\* counts of the texts, minChunkSize below and above chunkSize, maxChunkSize
\* below, at and above chunkSize.
ChunkSettings ==
  { [chunkSize |-> 1, minChunkSize |-> 1, maxChunkSize |-> 2, naturalBreaks |-> FALSE],
    [chunkSize |-> 2, minChunkSize |-> 1, maxChunkSize |-> 4, naturalBreaks |-> TRUE],
    [chunkSize |-> 2, minChunkSize |-> 3, maxChunkSize |-> 4, naturalBreaks |-> TRUE],
    [chunkSize |-> 2, minChunkSize |-> 1, maxChunkSize |-> 4, naturalBreaks |-> FALSE],
    [chunkSize |-> 3, minChunkSize |-> 1, maxChunkSize |-> 2, naturalBreaks |-> TRUE],
    [chunkSize |-> 3, minChunkSize |-> 1, maxChunkSize |-> 2, naturalBreaks |-> FALSE],
    [chunkSize |-> 4, minChunkSize |-> 2, maxChunkSize |-> 4, naturalBreaks |-> TRUE],
    [chunkSize |-> 7, minChunkSize |-> 1, maxChunkSize |-> 9, naturalBreaks |-> TRUE] }

\* data: {"choices":[{"delta":{"content": text}}]}
ContentLine(text) ==
  [kind |-> "data", choice |-> TRUE, content |-> text, usage |-> 0]

\* One request without the synthesis credential: the first token of its
\* completion, of any text, and the end of the body.
InitChunk ==
  /\ st = InitialRequest
  /\ voiceKey = FALSE
  /\ st2 = InitialRequest
  /\ call = InitialCall
  /\ probe = InitialProbe
  /\ db = InitialStore

NextChunk ==
  \/ \E v \in ChunkSettings : HandleRequest("POST", "string", v)
  \/ FetchResponds("ok")
  \/ /\ st.pc = "awaitRead" /\ st.delivered = <<>>
     /\ \E t \in Texts : ReadLines(<<ContentLine(t)>>)
  \/ ReadDone

SpecChunk == InitChunk /\ [][NextChunk]_vars

\* ------------------------------------------- twelve words, chunks of five

\* The longest delta of the scenario, in characters.
MaxDelta == 2

\* n words separated by single spaces.
RECURSIVE WordsText(_)
WordsText(n) ==
  IF n = 1 THEN <<"a">> ELSE WordsText(n - 1) \o <<" ", "a">>

\* The model output of the scenario, and its voiceSettings: chunkSize 5,
\* naturalBreaks off, the defaults for the rest.
ScenarioText == WordsText(12)

ScenarioSettings ==
  [chunkSize |-> 5, minChunkSize |-> 15, maxChunkSize |-> 60,
   naturalBreaks |-> FALSE]

\* The characters the upstream has sent so far.
RECURSIVE Emitted(_)
Emitted(ls) == IF ls = <<>> THEN <<>> ELSE Head(ls).content \o Emitted(Tail(ls))

\* The next token: the next k characters of the output, so that a word, a
\* space, a space and a word, or a word and a space make a delta.
TokenArrives(k) ==
  /\ st.pc = "awaitRead"
  /\ LET sent == Len(Emitted(st.delivered)) IN
     /\ sent + k <= Len(ScenarioText)
     /\ st' = ReadResolved(st, << ContentLine(SubSeq(ScenarioText,
                                                      sent + 1, sent + k)) >>,
                           voiceKey)
  /\ UNCHANGED <<voiceKey, st2, call, probe, db>>

\* The body ends after the last word.
BodyEnds ==
  /\ Emitted(st.delivered) = ScenarioText
  /\ ReadDone

NextScenario ==
  \/ HandleRequest("POST", "string", ScenarioSettings)
  \/ FetchResponds("ok")
  \/ \E k \in 1..MaxDelta : TokenArrives(k)
  \/ BodyEnds

SpecScenario == InitChunk /\ [][NextScenario]_vars

\* ------------------------------------------------- the voiceSettings given

Options ==
  { "chunkSize", "minChunkSize", "maxChunkSize", "audioFormat", "sampleRate",
    "naturalBreaks" }

\* A value for each option, none of them its default.
AllGiven ==
  [chunkSize |-> 2, minChunkSize |-> 1, maxChunkSize |-> 4,
   audioFormat |-> "wav", sampleRate |-> 8000, naturalBreaks |-> FALSE]

\* req.body.voiceSettings: null, or an object that gives no option, one
\* option, or all of them (absent is the object without options, by the
\* default of the destructuring in the controller).
GivenSettings ==
  { [isNull |-> TRUE, options |-> <<>>] }
  \cup { [isNull |-> FALSE, options |-> [o \in D |-> AllGiven[o]]]
         : D \in { {}, Options } \cup { {o} : o \in Options } }

\* The defaults of  const { chunkSize = 30, ... } = voiceSettings.
DefaultSettings ==
  [chunkSize |-> 30, minChunkSize |-> 15, maxChunkSize |-> 60,
   audioFormat |-> "mp3", sampleRate |-> 24000, naturalBreaks |-> TRUE]

\* The destructuring with defaults: an option left out takes its default.
Effective(options) ==
  [o \in Options |->
     IF o \in DOMAIN options THEN options[o] ELSE DefaultSettings[o]]

\* handleStreamingVoiceRequest for a valid POST and the beginning of
\* generateStreamingVoiceCompletion.  The defaults  voiceSettings = {}  of
\* the controller and of the service apply to undefined only: null reaches
\* the destructuring, which throws inside the try block of the service.
StartRequest(given) ==
  /\ st.pc = "idle"
  /\ st' = IF given.isNull
           THEN Catch([st EXCEPT !.request = [method |-> "POST",
                                              prompt |-> "string",
                                              given  |-> given],
                                 !.sse = TRUE],
                      "Cannot destructure property of null")
           ELSE [ handleStreamingVoiceRequest(st, "POST", "string",
                                              Effective(given.options))
                    EXCEPT !.request.given = given ]
  /\ UNCHANGED <<voiceKey, st2, call, probe, db>>

NextStart ==
  \/ \E g \in GivenSettings : StartRequest(g)
  \/ \E o \in {"ok", "notOk", "reject"} : FetchResponds(o)
  \/ \E b \in Batches(MaxLines - Len(st.delivered)) : ReadLines(b)
  \/ ReadDone
  \/ ReadFails

SpecStart == InitChunk /\ [][NextStart]_vars

\* ------------------------------------------------- the reads of the body

\* The longest body, in lines.
MaxBodyLines == 2

\* The lines a body is made of; after data: [DONE] the upstream sends
\* nothing but lines that are no message.
BodyLines ==
  { l \in DataLines : l.content # <<>> } \cup { JunkLine, DoneLine }

Bodies ==
  UNION { { b \in [1..k -> BodyLines] :
              \A i, j \in 1..k : (i < j /\ b[i] = DoneLine) => b[j] = JunkLine }
          : k \in 1..MaxBodyLines }

\* The bytes of a line on the wire: two pieces of its text and the newline
\* that ends it.
BytesOf(l) ==
  << [b |-> "head", line |-> l], [b |-> "tail", line |-> l],
     [b |-> "nl", line |-> l] >>

RECURSIVE Wire(_)
Wire(ls) == IF ls = <<>> THEN <<>> ELSE BytesOf(Head(ls)) \o Wire(Tail(ls))

\* buffer.split('\n'): the pieces between the newlines, the last piece
\* being what follows the last newline.
RECURSIVE SplitNewline(_)
SplitNewline(bytes) ==
  IF \A i \in DOMAIN bytes : bytes[i].b # "nl" THEN << bytes >>
  ELSE LET n == CHOOSE i \in DOMAIN bytes :
                  /\ bytes[i].b = "nl"
                  /\ \A j \in 1..(i - 1) : bytes[j].b # "nl"
       IN << SubSeq(bytes, 1, n - 1) >>
            \o SplitNewline(SubSeq(bytes, n + 1, Len(bytes)))

\* The line a piece of text is: the line whose two pieces it holds, and a
\* line that is not a message otherwise.
LineOf(piece) ==
  IF /\ Len(piece) = 2
     /\ piece[1].b = "head" /\ piece[2].b = "tail"
     /\ piece[1].line = piece[2].line
  THEN piece[1].line
  ELSE JunkLine

\* Every read starts from an empty buffer.
ReassembleNoCarry(buffer, value) ==
  LET pieces == SplitNewline(value)
  IN [ lines  |-> [i \in 1..(Len(pieces) - 1) |-> LineOf(pieces[i])],
       buffer |-> pieces[Len(pieces)] ]

\* buffer += decoder.decode(value); lines = buffer.split('\n');
\* buffer = lines.pop() || ''
Reassemble(buffer, value) ==
  LET pieces == SplitNewline(buffer \o value)
  IN [ lines  |-> [i \in 1..(Len(pieces) - 1) |-> LineOf(pieces[i])],
       buffer |-> pieces[Len(pieces)] ]

\* reader.read() has resolved with the next n bytes of the body.
ReadBytes(s, n, key) ==
  LET r == Reassemble(s.buffer, SubSeq(s.wire, s.taken + 1, s.taken + n))
  IN ProcessLines([s EXCEPT !.buffer = r.buffer,
                            !.taken = @ + n,
                            !.carried = @ \/ (s.buffer # <<>> /\ r.lines # <<>>),
                            !.lines = r.lines,
                            !.delivered = @ \o r.lines], key)

\* The fetch is answered with a body.
FetchRespondsBody(body) ==
  /\ st.pc = "awaitFetch"
  /\ st' = [FetchSettled(st, "ok") EXCEPT !.body = body, !.wire = Wire(body)]
  /\ UNCHANGED <<voiceKey, st2, call, probe, db>>

ReadSome(n) ==
  /\ st.pc = "awaitRead"
  /\ st.taken + n <= Len(st.wire)
  /\ st' = ReadBytes(st, n, voiceKey)
  /\ UNCHANGED <<voiceKey, st2, call, probe, db>>

ReadAll ==
  /\ st.taken = Len(st.wire)
  /\ ReadDone

NextBytes ==
  \/ \E v \in VoiceSettings : HandleRequest("POST", "string", v)
  \/ \E b \in Bodies : FetchRespondsBody(b)
  \/ \E n \in 1..(Len(st.wire) - st.taken) : ReadSome(n)
  \/ ReadAll
  \/ \E i \in DOMAIN st.inflight, o \in {"ok", "non2xx", "reject"} :
       SpeakResponds(i, o)
  \/ \E i \in DOMAIN st.inflight, ok \in BOOLEAN : AudioArrives(i, ok)

SpecBytes == Init /\ [][NextBytes]_vars

\* --------------------------------------------------- the break-point search

\* The largest target word count tried.
MaxTarget == 7

\* findNaturalBreakPoint(text, targetLength) is called with any text and
\* any target.
InitBreak ==
  /\ st = InitialRequest
  /\ voiceKey = FALSE
  /\ st2 = InitialRequest
  /\ call = InitialCall
  /\ probe \in { [text |-> t, targetLength |-> n, called |-> FALSE, result |-> -1]
                 : t \in Texts, n \in 1..MaxTarget }
  /\ db = InitialStore

Search ==
  /\ ~probe.called
  /\ probe' = [probe EXCEPT !.called = TRUE,
                            !.result = findNaturalBreakPoint(probe.text,
                                                             probe.targetLength)]
  /\ UNCHANGED <<st, voiceKey, st2, call, db>>

NextBreak == Search

SpecBreak == InitBreak /\ [][NextBreak]_vars

\* ------------------------------------------------- two concurrent requests

\* The upstream lines the two requests may consume between them.
MaxLinesTwo == 3

\* Both requests are valid POSTs; their completions carry content deltas,
\* a word character or a sentence end, in reads of one or more lines.
TwoSettings == { v \in VoiceSettings : v.chunkSize <= v.maxChunkSize }

TwoContents == { <<"a">>, <<".", " ">> }

TwoBatches(n) ==
  UNION { [1..k -> { l \in DataLines : l.content \in TwoContents }]
          : k \in 1..n }

Req(r) == IF r = 1 THEN st ELSE st2

\* textBuffer, chunkIndex and audioChunkTimes held in fields of the service
\* instance, which every request reads and writes.
SharedLocals(t, o) ==
  [o EXCEPT !.textBuffer = t.textBuffer, !.chunkIndex = t.chunkIndex,
            !.audioChunkTimes = t.audioChunkTimes]

\* let textBuffer = ''; let chunkIndex = 0; const audioChunkTimes = []: the
\* other request o keeps its own when this request has moved on to t.
Locals(t, o) == o

\* Request r moves on to t.
Becomes(r, t) ==
  /\ st'  = IF r = 1 THEN t ELSE Locals(t, st)
  /\ st2' = IF r = 2 THEN t ELSE Locals(t, st2)
  /\ UNCHANGED <<voiceKey, call, probe, db>>

HandleRequestOf(r, v) ==
  /\ Req(r).pc = "idle"
  /\ Becomes(r, handleStreamingVoiceRequest(Req(r), "POST", "string", v))

FetchRespondsOf(r) ==
  /\ Req(r).pc = "awaitFetch"
  /\ Becomes(r, FetchSettled(Req(r), "ok"))

ReadLinesOf(r, batch) ==
  /\ Req(r).pc = "awaitRead"
  /\ Len(st.delivered) + Len(st2.delivered) + Len(batch) <= MaxLinesTwo
  /\ Becomes(r, ReadResolved(Req(r), batch, voiceKey))

ReadDoneOf(r) ==
  /\ Req(r).pc = "awaitRead"
  /\ Becomes(r, ReadEnded(Req(r), voiceKey))

SpeakRespondsOf(r, i, outcome) ==
  /\ i \in DOMAIN Req(r).inflight
  /\ Req(r).inflight[i].stage = "fetch"
  /\ Becomes(r, SpeakSettled(Req(r), i, outcome, voiceKey))

AudioArrivesOf(r, i, ok) ==
  /\ i \in DOMAIN Req(r).inflight
  /\ Req(r).inflight[i].stage = "body"
  /\ Becomes(r, BodySettled(Req(r), i, ok, voiceKey))

NextTwo ==
  \/ \E r \in 1..2, v \in TwoSettings : HandleRequestOf(r, v)
  \/ \E r \in 1..2 : FetchRespondsOf(r)
  \/ \E r \in 1..2 :
       \E b \in TwoBatches(MaxLinesTwo - Len(st.delivered) - Len(st2.delivered)) :
         ReadLinesOf(r, b)
  \/ \E r \in 1..2 : ReadDoneOf(r)
  \/ \E r \in 1..2 : \E i \in DOMAIN Req(r).inflight, o \in {"ok", "reject"} :
       SpeakRespondsOf(r, i, o)
  \/ \E r \in 1..2 : \E i \in DOMAIN Req(r).inflight, ok \in BOOLEAN :
       AudioArrivesOf(r, i, ok)

SpecTwo == Init /\ [][NextTwo]_vars

\* ------------------------------------------------------------- makeAPICall

\* The largest retries argument tried.
MaxRetries == 6

\* How one attempt ends: the response is ok and its JSON is read; fetch
\* rejects; the response has a 4xx or a 5xx status; the response is ok and
\* response.json() rejects.
ClientErrors == {"400", "429"}
ServerErrors == {"500", "503"}
Outcomes == {"ok", "network", "badJson"} \cup ClientErrors \cup ServerErrors

Min(a, b) == IF a < b THEN a ELSE b

\* The delay without its cap.
DelayUncapped(attempt) == 1000 * 2 ^ (attempt - 1)

\* Math.min(1000 * Math.pow(2, attempt - 1), 10000)
Delay(attempt) == Min(1000 * 2 ^ (attempt - 1), 10000)

\* The Error an attempt that did not succeed throws into the catch block.
ErrorOf(outcome) ==
  IF outcome \in ClientErrors \cup ServerErrors
  THEN [message |-> "OpenAI API error", status |-> outcome]
  ELSE [message |-> outcome, status |-> "none"]

\* makeAPICall(requestData, retries) up to its first await: the for loop is
\* entered when 1 <= retries, otherwise the function returns undefined.
makeAPICall(c, retries) ==
  IF 1 <= retries
  THEN [c EXCEPT !.retries = retries, !.attempt = 1, !.pc = "fetch"]
  ELSE [c EXCEPT !.retries = retries, !.attempt = 1,
                 !.result = [returned |-> "undefined"], !.pc = "settled"]

\* The attempt has settled: data is returned, or the catch block rethrows
\* the error of the last attempt, or it starts the timer of the backoff.
AttemptSettled(c, outcome) ==
  LET c1 == [c EXCEPT !.attempts = Append(@, outcome)] IN
  IF outcome = "ok"
  THEN [c1 EXCEPT !.result = [returned |-> "data"], !.pc = "settled"]
  ELSE IF c.attempt = c.retries
  THEN [c1 EXCEPT !.result = [thrown |-> ErrorOf(outcome)], !.pc = "settled"]
  ELSE [c1 EXCEPT !.delays = Append(@, Delay(c.attempt)), !.pc = "sleep"]

\* The timer has fired: attempt++ and the loop condition, which holds
\* because the catch block slept only when attempt < retries.
TimerFired(c) == [c EXCEPT !.attempt = @ + 1, !.pc = "fetch"]

CallStarts(retries) ==
  /\ call.pc = "idle"
  /\ call' = makeAPICall(call, retries)
  /\ UNCHANGED <<st, voiceKey, st2, probe, db>>

AttemptSettles(outcome) ==
  /\ call.pc = "fetch"
  /\ call' = AttemptSettled(call, outcome)
  /\ UNCHANGED <<st, voiceKey, st2, probe, db>>

TimerFires ==
  /\ call.pc = "sleep"
  /\ call' = TimerFired(call)
  /\ UNCHANGED <<st, voiceKey, st2, probe, db>>

NextCall ==
  \/ \E r \in 0..MaxRetries : CallStarts(r)
  \/ \E o \in Outcomes : AttemptSettles(o)
  \/ TimerFires

SpecCall == Init /\ [][NextCall]_vars

\* The chunkIndex values of the audio and audio-error events, in channel order.
AudioIndices(ch) ==
  LET d == DataOf(ch, {"audio", "audio-error"})
  IN [i \in 1..Len(d) |-> d[i].payload.chunkIndex]

\* The contents of the text events, in channel order.
TextEvents(ch) ==
  LET d == DataOf(ch, {"text"}) IN [i \in 1..Len(d) |-> d[i].payload.content]

\* The lines before the first data: [DONE].
RECURSIVE BeforeDone(_)
BeforeDone(ls) ==
  IF ls = <<>> \/ Head(ls).kind = "done" THEN <<>>
  ELSE <<Head(ls)>> \o BeforeDone(Tail(ls))

\* The token deltas with content carried by the lines ls.
ContentDeltas(ls) ==
  LET d == SelectSeq(ls, LAMBDA l : l.kind = "data" /\ l.choice /\ l.content # <<>>)
  IN [i \in 1..Len(d) |-> d[i].content]

RECURSIVE Concat(_)
Concat(ts) == IF ts = <<>> THEN <<>> ELSE Head(ts) \o Concat(Tail(ts))

ChunkTexts(h) == [i \in 1..Len(h) |-> h[i].text]

\* The upstream token stream has completed: sentinel received or body ended.
UpstreamCompleted == st.upstream \in {"sentinel", "eof"}

\* The channel ends with a whole done event and is closed.
EndsWithDone ==
  /\ Len(st.channel) >= 2
  /\ st.channel[Len(st.channel) - 1] = EventLine("done")
  /\ Last(st.channel).w = "data" /\ Last(st.channel).ev = "done"
  /\ st.ended

\* ------------------------------------------------------------------ claims

\* C1 as stated: for every request, once it has returned, the chunkIndex
\* values of the audio and audio-error events are 0, 1, ..., N-1, N the number
\* of chunks produced.
C1_AllRequestsGapless ==
  st.pc = "returned" => AudioIndices(st.channel) = UpTo(Len(st.handed))

\* C1 amended: with the synthesis credential present the chunkIndex values of
\* the audio and audio-error events are 0, 1, ..., N-1 with no gap and no
\* repeat, N the number of chunks whose synthesis has settled (every chunk
\* produced, once the request has returned); with the credential absent no
\* such event is written.
C1_ChunkIndexGapless ==
  AudioIndices(st.channel) =
    IF voiceKey THEN UpTo(Len(st.handed) - Len(st.inflight)) ELSE <<>>

C1_Witness ==
  /\ voiceKey /\ st.pc = "returned"
  /\ Len(st.handed) = 2
  /\ AudioIndices(st.channel) = <<0, 1>>
  /\ \E i \in DOMAIN st.channel : st.channel[i].ev = "audio-error"

\* C2: the chunk texts handed to synthesis followed by TextBuffer are the
\* text generated so far, and once the upstream stream has completed the
\* chunk texts alone are the whole generated text.
C2_ChunksReproduceText ==
  LET full == Concat(TextEvents(st.channel)) IN
  /\ ~st.flushing => Concat(ChunkTexts(st.handed)) \o st.textBuffer = full
  /\ (st.pc = "returned" /\ UpstreamCompleted)
       => Concat(ChunkTexts(st.handed)) = full

\* C3: when the upstream stream has completed and the request has returned,
\* a non-empty residual TextBuffer was handed to synthesis as the final
\* chunk, and the channel ends with the one done event and is closed.
C3_FlushThenDone ==
  (st.pc = "returned" /\ UpstreamCompleted) =>
    /\ Trim(st.textBuffer) # <<>> =>
         /\ st.handed # <<>>
         /\ Last(st.handed).text = Trim(st.textBuffer)
         /\ st.flushing
    /\ Len(DataOf(st.channel, {"done"})) = 1
    /\ EndsWithDone

\* C4: every "event:" line on the channel is directly followed by the data
\* line of the same event, and every data line directly follows its
\* "event:" line.
C4_EventsAtomic ==
  \A i \in DOMAIN st.channel :
    IF st.channel[i].w = "event"
    THEN /\ i < Len(st.channel)
         /\ st.channel[i + 1].w = "data"
         /\ st.channel[i + 1].ev = st.channel[i].ev
    ELSE /\ i > 1
         /\ st.channel[i - 1] = EventLine(st.channel[i].ev)

\* C5: if the synthesis of a chunk failed, an audio-error event with that
\* chunk's index was written, and once the upstream stream has completed the
\* channel ends with a done event whose totalChunks is the number of chunks
\* attempted.
C5_FailureThenDone ==
  LET errs == DataOf(st.channel, {"audio-error"}) IN
  (errs # <<>> /\ st.pc = "returned" /\ UpstreamCompleted) =>
    /\ \A i \in DOMAIN errs :
         \E j \in DOMAIN st.handed :
           st.handed[j].chunkIndex = errs[i].payload.chunkIndex
    /\ EndsWithDone
    /\ Last(st.channel).payload.totalChunks = Len(st.handed)

\* C6: without VOICE_KEY no audio and no audio-error event is written, no
\* synthesis call is made, and once the upstream stream has completed the
\* channel holds the text events followed by a done event.
C6_TextOnlyThenDone ==
  ~voiceKey =>
    /\ AudioIndices(st.channel) = <<>>
    /\ st.speakCalls = 0
    /\ (st.pc = "returned" /\ UpstreamCompleted) =>
         /\ EndsWithDone
         /\ TextEvents(st.channel) = ContentDeltas(BeforeDone(st.delivered))

\* C7: whenever the orchestrator waits for the next read or has returned,
\* the text events on the channel are the content deltas of the upstream
\* lines delivered before data: [DONE], in order: a function of the upstream
\* lines alone, whatever each synthesis call did.
C7_TextIndependentOfSynthesis ==
  st.pc \in {"awaitRead", "returned"} =>
    TextEvents(st.channel) = ContentDeltas(BeforeDone(st.delivered))

C7_Witness ==
  /\ st.pc = "returned"
  /\ \E i, j \in DOMAIN st.channel :
       /\ i < j
       /\ st.channel[i].ev = "audio-error"
       /\ st.channel[j].ev = "text"
  /\ \E i \in DOMAIN st.channel : st.channel[i].ev = "audio"

C9_DoneTerminal ==
  LET ch == st.channel IN
  /\ Cardinality({ i \in DOMAIN ch : ch[i] = EventLine("done") }) <= 1
  /\ ~ /\ \E i \in DOMAIN ch : ch[i].ev = "done"
       /\ \E i \in DOMAIN ch : ch[i].ev = "error"
  /\ \A i \in DOMAIN ch :
       (ch[i].w = "data" /\ ch[i].ev = "done") => (i = Len(ch) /\ st.ended)

\* The text, audio and audio-error events in channel order, each audio or
\* audio-error event with its chunkIndex.
ChannelOrder ==
  LET d == DataOf(st.channel, {"text", "audio", "audio-error"})
  IN [i \in 1..Len(d) |->
        IF d[i].ev = "text" THEN <<"text">>
        ELSE <<d[i].ev, d[i].payload.chunkIndex>>]

\* The same events in the order in which the orchestrator produced them.
TraceOrder ==
  LET e == SelectSeq(st.trace,
                     LAMBDA x : x.t = "text" \/ (x.t = "settled" /\ x.ev # "none"))
  IN [i \in 1..Len(e) |->
        IF e[i].t = "text" THEN <<"text">> ELSE <<e[i].ev, e[i].chunkIndex>>]

\* C10: a chunk handed to synthesis is settled before anything else happens:
\* the entry after "handed N" is "settled N" (with an audio or audio-error
\* event when VOICE_KEY is set), never the text event of a later token and
\* never the hand-over of chunk N+1; at most one synthesis call is in flight;
\* and the text, audio and audio-error events stand on the channel in that
\* order.
C10_StrictSequence ==
  LET tr == st.trace
  IN /\ \A i \in DOMAIN tr :
          tr[i].t = "handed" =>
            IF i = Len(tr) THEN Len(st.inflight) = 1
            ELSE /\ tr[i + 1].t = "settled"
                 /\ tr[i + 1].chunkIndex = tr[i].chunkIndex
                 /\ voiceKey => tr[i + 1].ev \in {"audio", "audio-error"}
     /\ Len(st.inflight) <= 1
     /\ ChannelOrder = TraceOrder

C10_Witness ==
  /\ voiceKey
  /\ \E i \in 1..(Len(st.trace) - 2) :
       /\ st.trace[i].t = "handed"
       /\ st.trace[i + 1].t = "settled"
       /\ st.trace[i + 2].t = "text"
  /\ Len(st.handed) = 2 /\ st.inflight = <<>>

\* The lines the for loop has reached: everything delivered but the lines of
\* the current batch that wait behind a suspended synthesis call.
Consumed(s) ==
  SubSeq(s.delivered, 1,
         Len(s.delivered) - Len(s.lines)
           + (IF s.pc = "awaitSpeak" /\ ~s.flushing THEN 1 ELSE 0))

\* C11: at every moment the text events on the channel carry exactly the raw
\* content deltas of the upstream tokens consumed so far, one event per token
\* with content, in upstream order, whatever chunks were cut in between; and
\* every chunk cut while streaming is handed over directly after the text
\* event of the token that completed it.
C11_TextVerbatim ==
  /\ TextEvents(st.channel) = ContentDeltas(BeforeDone(Consumed(st)))
  /\ \A i \in DOMAIN st.trace :
       (/\ st.trace[i].t = "handed"
        /\ ~(st.flushing /\ \A j \in (i + 1)..Len(st.trace) :
                              st.trace[j].t # "handed"))
         => (i > 1 /\ st.trace[i - 1].t = "text")

\* A chunk was cut at the first token of a batch: its text event is on the
\* channel while the synthesis call is in flight and a later line waits.
C11_Witness ==
  /\ st.pc = "awaitSpeak" /\ ~st.flushing
  /\ Len(st.lines) > 1
  /\ Len(TextEvents(st.channel)) >= 2
  /\ Last(TextEvents(st.channel)) = Head(st.lines).content
  /\ Last(st.handed).text # Head(st.lines).content

\* C12: a voice-streaming POST whose prompt is missing, empty or not a string
\* is answered with status 400 and a JSON error and never enters streaming:
\* no event-stream header, no event written, no chat-completion request and
\* no synthesis call.
C12_InvalidPromptRejected ==
  (st.request.method = "POST" /\ st.request.prompt \in Prompts \ {"string"})
    => /\ st.pc = "returned"
       /\ st.statusCode = 400 /\ st.json = "Invalid request"
       /\ ~st.sse
       /\ st.channel = <<>>
       /\ st.opens = 0 /\ st.speakCalls = 0

\* C13: a request whose chat-completion call is rejected before any text was
\* emitted is answered with a non-2xx status (502) instead of an opened
\* channel: no event-stream header, no start event, no event at all.
C13_EarlyFailureNon2xx ==
  st.upstream = "rejected"
    => /\ st.statusCode = 502
       /\ ~st.sse
       /\ st.channel = <<>>

\* C14: the streaming completion call is attempted up to 3 times when the
\* connection cannot be established (a network-level failure, here the
\* rejected fetch), so a request that reports this failure has made 3
\* attempts; a stream that failed after it had started was opened once.
C14_InitialConnectionRetried ==
  /\ (st.upstream = "rejected"
        /\ Last(st.channel).payload.message = "fetch failed")
       => st.opens = 3
  /\ st.upstream = "readError" => st.opens = 1

\* C16: once the client has disconnected after the start event, no further
\* upstream line is consumed and no further synthesis call is made.
C16_DisconnectStopsWork ==
  st.client.gone
    => /\ Len(st.delivered) = st.client.delivered
       /\ st.speakCalls = st.client.speakCalls

\* C15: in the retry loop of makeAPICall a 4xx response ends the call: it is
\* the last attempt made, and the call fails with that status.
C15_ClientErrorNotRetried ==
  \A k \in DOMAIN call.attempts :
    call.attempts[k] \in ClientErrors
      => /\ k = Len(call.attempts)
         /\ call.pc = "settled"
         /\ call.result = [thrown |-> ErrorOf(call.attempts[k])]

\* The request with the settings of s, run alone and without the synthesis
\* credential over the upstream lines s has reached, in one read.
Alone(s) ==
  LET base == FetchSettled(handleStreamingVoiceRequest(
                             InitialRequest, "POST", "string", s.settings), "ok")
      p    == ReadResolved(base, Consumed(s), FALSE)
  IN IF s.upstream = "eof" THEN ReadEnded(p, FALSE) ELSE p

\* The chunkIndex and text of the audio and audio-error events, in channel
\* order.
AudioChunks(ch) ==
  LET d == DataOf(ch, {"audio", "audio-error"})
  IN [i \in 1..Len(d) |->
        [chunkIndex |-> d[i].payload.chunkIndex, text |-> d[i].payload.text]]

\* Request s has handed to synthesis, and written to its channel, the chunk
\* indices and texts of the run alone, and holds the same residual text.
AsAlone(s) ==
  s.pc \in {"awaitRead", "awaitSpeak", "returned"}
    => /\ s.handed = Alone(s).handed
       /\ AudioChunks(s.channel) =
            (IF voiceKey
             THEN SubSeq(Alone(s).handed, 1, Len(s.handed) - Len(s.inflight))
             ELSE <<>>)
       /\ TextEvents(s.channel) = ContentDeltas(Consumed(s))
       /\ s.pc # "awaitSpeak"
            => /\ s.textBuffer = Alone(s).textBuffer
               /\ s.chunkIndex = Alone(s).chunkIndex

\* C17: of two requests served concurrently by the one service instance,
\* under every interleaving at the suspension points, each writes to its own
\* channel exactly the chunk indices and chunk texts it would write alone.
C17_RequestsIsolated == AsAlone(st) /\ AsAlone(st2)

\* Both requests are suspended in a synthesis call at once, each for a chunk
\* of its own, after one of them already had a chunk synthesised.
C17_Witness ==
  /\ voiceKey
  /\ st.pc = "awaitSpeak" /\ st2.pc = "awaitSpeak"
  /\ Last(st.handed).text # Last(st2.handed).text
  /\ Len(AudioChunks(st.channel)) + Len(AudioChunks(st2.channel)) >= 1

\* Words and prefixes told by the positions of the spaces.
SpacesOf(t) == { i \in DOMAIN t : t[i] = " " }

NumWords(t) == Cardinality(SpacesOf(t)) + 1

NthSpace(t, n) ==
  CHOOSE i \in SpacesOf(t) : Cardinality({ j \in SpacesOf(t) : j <= i }) = n

\* The first n words of t, the spaces between them kept, and what follows
\* the space after them.
FirstWords(t, n) ==
  IF n >= NumWords(t) THEN t ELSE SubSeq(t, 1, NthSpace(t, n) - 1)

AfterWords(t, n) ==
  IF n >= NumWords(t) THEN <<>> ELSE SubSeq(t, NthSpace(t, n) + 1, Len(t))

\* t without the spaces at its two ends.
Stripped(t) ==
  LET solid == DOMAIN t \ SpacesOf(t)
  IN IF solid = {} THEN <<>>
     ELSE SubSeq(t, CHOOSE i \in solid : \A j \in solid : i <= j,
                    CHOOSE i \in solid : \A j \in solid : j <= i)

\* The first token of the completion has been appended and decided upon.
AfterToken ==
  st.pc = "awaitRead" /\ Len(st.delivered) = 1 /\ st.upstream = "open"

SentenceBreaks(t) ==
  { i \in 1..(Len(t) - 1) : t[i] \in SentencePunct /\ t[i + 1] \in Whitespace }

WordsBefore(t, i) == NumWords(SubSeq(t, 1, i - 1))

\* The sentence-terminal breaks in the acceptance window around target.
InWindow(t, target) ==
  { i \in SentenceBreaks(t) :
      /\ 10 * WordsBefore(t, i) >= 7 * target
      /\ 10 * WordsBefore(t, i) <= 13 * target }

\* C19: with naturalBreaks on, when the buffer holds w >= minChunkSize words
\* and has a sentence-terminal break whose preceding word count lies in the
\* window around chunkSize, a chunk is cut at such a break, also when
\* w < chunkSize.
C19_NaturalBreakBelowChunkSize ==
  AfterToken =>
    LET buf == st.delivered[1].content
        v   == st.settings
    IN (/\ v.naturalBreaks
        /\ NumWords(buf) >= v.minChunkSize
        /\ InWindow(buf, v.chunkSize) # {})
         => /\ st.handed # <<>>
            /\ \E i \in InWindow(buf, v.chunkSize) :
                 st.handed[1].text = Stripped(SubSeq(buf, 1, i))

\* The words of t that are not empty: the places where a run of characters
\* other than the space begins.
WordsIn(t) ==
  Cardinality({ i \in DOMAIN t : t[i] # " " /\ (i = 1 \/ t[i - 1] = " ") })

\* C20: no chunk handed to synthesis, the final flush included, has more
\* than maxChunkSize words, whatever the size of the delta.
C20_MaxChunkSizeCap ==
  \A i \in DOMAIN st.handed :
    WordsIn(st.handed[i].text) <= st.settings.maxChunkSize

\* The offset just after the break whose mark is at position i of t: after
\* the mark and the whole run of whitespace that follows it.
EndOfRun(t, i) ==
  CHOOSE j \in (i + 1)..Len(t) :
    /\ \A k \in (i + 1)..j : t[k] \in Whitespace
    /\ j = Len(t) \/ t[j + 1] \notin Whitespace

Least(S) == CHOOSE i \in S : \A j \in S : i <= j

Greatest(S) == CHOOSE i \in S : \A j \in S : j <= i

\* The sentence-terminal breaks with at most target words before them.
AtOrBefore(t, target) ==
  { i \in SentenceBreaks(t) : WordsBefore(t, i) <= target }

\* C21: over the sentence-terminal breaks, findNaturalBreakPoint returns the
\* offset just after the first break whose preceding word count lies in
\* [0.7 * target, 1.3 * target]; if no break lies in the window, the offset
\* just after the last break with at most target words before it; for every
\* text, also one with fewer than target words.
C21_SentenceBreakChosen ==
  probe.called =>
    LET t == probe.text
        n == probe.targetLength
    IN IF InWindow(t, n) # {}
       THEN probe.result = EndOfRun(t, Least(InWindow(t, n)))
       ELSE AtOrBefore(t, n) # {}
              => probe.result = EndOfRun(t, Greatest(AtOrBefore(t, n)))

\* The pause breaks of t: the positions of the pause marks followed by
\* whitespace; those in the window [0.8 * target, 1.2 * target]; those with
\* at most target words before them.
PauseBreaks(t) ==
  { i \in 1..(Len(t) - 1) : t[i] \in PausePunct /\ t[i + 1] \in Whitespace }

PauseInWindow(t, target) ==
  { i \in PauseBreaks(t) :
      /\ 10 * WordsBefore(t, i) >= 8 * target
      /\ 10 * WordsBefore(t, i) <= 12 * target }

PauseAtOrBefore(t, target) ==
  { i \in PauseBreaks(t) : WordsBefore(t, i) <= target }

\* C22: the pause marks are searched only when no sentence-terminal break
\* qualified, in the window or at or before the target; the search takes the
\* first pause break in [0.8 * target, 1.2 * target], else the last one at
\* or before the target; and -1 is returned exactly when no sentence break
\* and no pause break qualifies.
C22_PauseBreakChosen ==
  probe.called =>
    LET t        == probe.text
        n        == probe.targetLength
        sentence == InWindow(t, n) \cup AtOrBefore(t, n)
        pause    == PauseInWindow(t, n) \cup PauseAtOrBefore(t, n)
    IN /\ sentence # {}
            => probe.result \in { EndOfRun(t, i) : i \in sentence }
       /\ sentence = {}
            => IF PauseInWindow(t, n) # {}
               THEN probe.result = EndOfRun(t, Least(PauseInWindow(t, n)))
               ELSE IF PauseAtOrBefore(t, n) # {}
               THEN probe.result = EndOfRun(t, Greatest(PauseAtOrBefore(t, n)))
               ELSE probe.result = -1
       /\ probe.result = -1 <=> (sentence = {} /\ pause = {})

\* C23: findNaturalBreakPoint returns -1 or an offset o, 0 < o <= length of
\* the text, that lies just after a sentence or pause mark and the whole run
\* of whitespace that follows it: never between the mark and its whitespace
\* and never inside the run.
C23_OffsetAfterWhitespaceRun ==
  probe.called =>
    \/ probe.result = -1
    \/ /\ 0 < probe.result /\ probe.result <= Len(probe.text)
       /\ \E i \in SentenceBreaks(probe.text) \cup PauseBreaks(probe.text) :
            probe.result = EndOfRun(probe.text, i)

\* An offset was returned after a mark followed by two spaces, with text
\* after them.
C23_Witness ==
  /\ probe.called
  /\ probe.result > 2
  /\ probe.result < Len(probe.text)
  /\ probe.text[probe.result] \in Whitespace
  /\ probe.text[probe.result - 1] \in Whitespace

\* C24: with naturalBreaks off and chunkSize 5, the 12-word output yields
\* chunks of exactly 5, 5 and 2 words in that order, however the words are
\* split into deltas.
C24_FiveFiveTwo ==
  (st.pc = "returned" /\ st.upstream = "eof"
     /\ Emitted(st.delivered) = ScenarioText)
    => [i \in 1..Len(st.handed) |-> WordsIn(st.handed[i].text)] = <<5, 5, 2>>

\* total_tokens of the last usage record carried by the lines ls, 0 when
\* none carries one.
RECURSIVE LastUsage(_)
LastUsage(ls) ==
  IF ls = <<>> THEN 0
  ELSE IF Last(ls).kind = "data" /\ Last(ls).usage > 0 THEN Last(ls).usage
  ELSE LastUsage(SubSeq(ls, 1, Len(ls) - 1))

\* C25: the totalTokens of the done event is the total_tokens of the last
\* usage record that appeared in the upstream stream, 0 only if there was
\* none.
C25_DoneReportsUsage ==
  \A i \in DOMAIN st.channel :
    (st.channel[i].w = "data" /\ st.channel[i].ev = "done")
      => st.channel[i].payload.totalTokens = LastUsage(BeforeDone(st.delivered))

\* C26: for every request that passes validation the start event is written
\* exactly once and before every other event, and its voiceSettings are the
\* options the request gave and, for the options left out, the defaults
\* chunkSize 30, minChunkSize 15, maxChunkSize 60, audioFormat mp3,
\* sampleRate 24000, naturalBreaks true.
C26_StartOnceFirstEcho ==
  (st.request.method = "POST" /\ st.request.prompt = "string")
    => LET g    == st.request.given.options
           echo == st.channel[2].payload.voiceSettings
           E(o, default) == echo[o] = (IF o \in DOMAIN g THEN g[o] ELSE default)
       IN /\ Len(st.channel) >= 2
          /\ st.channel[1] = EventLine("start")
          /\ st.channel[2].w = "data" /\ st.channel[2].ev = "start"
          /\ Len(DataOf(st.channel, {"start"})) = 1
          /\ E("chunkSize", 30) /\ E("minChunkSize", 15) /\ E("maxChunkSize", 60)
          /\ E("audioFormat", "mp3") /\ E("sampleRate", 24000)
          /\ E("naturalBreaks", TRUE)

\* The wait after failed attempt k, in ms: 1000, 2000, 4000, 8000, then
\* 10000.
WaitAfter(k) == IF k >= 5 THEN 10000 ELSE <<1000, 2000, 4000, 8000>>[k]

\* C27: makeAPICall(requestData, retries) makes at most retries attempts; a
\* successful attempt is the last one and its data is returned; after failed
\* attempt k < retries it waits min(1000 * 2^(k-1), 10000) ms; after the
\* failed attempt number retries it rethrows that attempt's error without
\* waiting.
C27_RetryLoop ==
  LET n == Len(call.attempts) IN
  /\ n <= call.retries
  /\ \A k \in 1..(n - 1) : call.attempts[k] # "ok"
  /\ \A k \in DOMAIN call.delays : call.delays[k] = WaitAfter(k)
  /\ call.pc = "fetch" => Len(call.delays) = n
  /\ call.pc = "sleep" => Len(call.delays) = n /\ n < call.retries
  /\ (call.pc = "settled" /\ n > 0) =>
       /\ Len(call.delays) = n - 1
       /\ IF call.attempts[n] = "ok"
          THEN call.result = [returned |-> "data"]
          ELSE /\ n = call.retries
               /\ call.result = [thrown |-> ErrorOf(call.attempts[n])]
  /\ (n > 0 /\ call.attempts[n] = "ok") => call.pc = "settled"

\* Every attempt of a call with six attempts allowed has failed: the waits
\* reached the cap and the last error was rethrown.
C27_Witness ==
  /\ call.pc = "settled"
  /\ call.retries = 6
  /\ Len(call.attempts) = 6
  /\ call.delays = <<1000, 2000, 4000, 8000, 10000>>
  /\ call.result = [thrown |-> ErrorOf("503")]

\* The positions on the channel of the audio and audio-error data lines that
\* carry the index and the text of chunk c.
EventsOf(c) ==
  { k \in DOMAIN st.channel :
      /\ st.channel[k].w = "data"
      /\ st.channel[k].ev \in {"audio", "audio-error"}
      /\ st.channel[k].payload.chunkIndex = c.chunkIndex
      /\ st.channel[k].payload.text = c.text }

\* C28: with the synthesis credential present, every chunk handed to
\* convertTextToSpeech has, once the call has settled, exactly one event on
\* the channel, an audio event or an audio-error event with the chunk's
\* index and text, never both and never neither, whatever the outcome; and
\* no audio or audio-error event stands for anything but a handed chunk.
C28_OneEventPerChunk ==
  voiceKey =>
    /\ \A i \in DOMAIN st.handed :
         Cardinality(EventsOf(st.handed[i])) =
           (IF \E j \in DOMAIN st.inflight :
                  st.inflight[j].chunkIndex = st.handed[i].chunkIndex
            THEN 0 ELSE 1)
    /\ Len(DataOf(st.channel, {"audio", "audio-error"}))
         = Len(st.handed) - Len(st.inflight)
    /\ Len(SelectSeq(st.channel,
                     LAMBDA x : x.w = "event" /\ x.ev \in {"audio", "audio-error"}))
         = Len(st.handed) - Len(st.inflight)

\* Two chunks were synthesised, one answered with audio and one with a
\* failure.
C28_Witness ==
  /\ voiceKey
  /\ Len(st.handed) = 2 /\ st.inflight = <<>>
  /\ Len(DataOf(st.channel, {"audio"})) = 1
  /\ Len(DataOf(st.channel, {"audio-error"})) = 1
\* The lines of the body whose terminating newline has been read.
Arrived(s) ==
  SubSeq(s.body, 1,
         Cardinality({ i \in 1..s.taken : s.wire[i].b = "nl" }))

\* The request with the settings of s, run without the synthesis credential
\* over the lines of Arrived(s) given by one read.
OneRead(s) ==
  LET base == FetchSettled(handleStreamingVoiceRequest(
                             InitialRequest, "POST", "string", s.settings), "ok")
      p    == ReadResolved(base, Arrived(s), FALSE)
  IN IF s.upstream = "eof" THEN ReadEnded(p, FALSE) ELSE p

\* C29: however the bytes of a newline-terminated body are split into reads,
\* the lines given to the loop are the lines whose newline has arrived, each
\* once and in order, and between two reads the channel, the chunks handed
\* over and the residual text are those of the run that got the same lines
\* in one read.
C29_ReadsDoNotMatter ==
  /\ st.delivered = Arrived(st)
  /\ (st.wire # <<>> /\ st.pc \in {"awaitRead", "returned"})
       => /\ TextEvents(st.channel) = TextEvents(OneRead(st).channel)
          /\ st.handed = OneRead(st).handed
          /\ st.textBuffer = OneRead(st).textBuffer
          /\ ~voiceKey => st.channel = OneRead(st).channel

\* The body has ended after two content lines, one of them completed from a
\* piece that an earlier read had left in the buffer.
C29_Witness ==
  /\ st.carried
  /\ st.upstream = "eof"
  /\ st.taken = Len(st.wire)
  /\ Len(TextEvents(st.channel)) = 2

\* ------------------------------------------------- events and comments

\* The most events ever created and the most requests on the collections.
MaxEvents == 2
MaxRequests == 3

\* req.body.eventId of a comment, req.params.id of a delete: the id of an
\* event some time created or not; 0 is a body without eventId.
EventIds == 1..MaxEvents
GivenIds == EventIds \cup {0}

Respond(r, status) ==
  [db EXCEPT !.requests[r].pc = "done", !.requests[r].status = status]

\* EventController.create with a title and a date: insertOne gives the
\* event an id no other event has had.
EventCreate ==
  /\ db.lastEvent < MaxEvents
  /\ db' = [db EXCEPT !.lastEvent = @ + 1, !.events = @ \cup {db.lastEvent + 1}]
  /\ UNCHANGED <<st, voiceKey, st2, call, probe>>

\* CommentController.create up to its first await.
CommentCreateArrives(eventId, content) ==
  /\ Len(db.requests) < MaxRequests
  /\ db' = [db EXCEPT !.requests = Append(@,
              [ kind |-> "comment", eventId |-> eventId,
                pc |-> IF eventId = 0 \/ ~content THEN "done"
                       ELSE "findById",
                status |-> IF eventId = 0 \/ ~content THEN 400 ELSE 0 ])]
  /\ UNCHANGED <<st, voiceKey, st2, call, probe>>

\* EventModel.findById has settled.
EventLookedUp(r, ok) ==
  /\ db.requests[r].pc = "findById"
  /\ db' = IF ~ok THEN Respond(r, 500)
           ELSE IF db.requests[r].eventId \notin db.events THEN Respond(r, 404)
           ELSE [db EXCEPT !.requests[r].pc = "insertOne"]
  /\ UNCHANGED <<st, voiceKey, st2, call, probe>>

\* CommentModel.create has settled.
CommentInserted(r, ok) ==
  IF ~ok THEN Respond(r, 500)
  ELSE [Respond(r, 201) EXCEPT
          !.lastComment = @ + 1,
          !.comments = @ \cup {[ id |-> db.lastComment + 1,
                                 eventId |-> db.requests[r].eventId ]}]

CommentCreateSettles(r, ok) ==
  /\ db.requests[r].pc = "insertOne"
  /\ db' = CommentInserted(r, ok)
  /\ UNCHANGED <<st, voiceKey, st2, call, probe>>

\* EventController.delete up to its first await.
EventDeleteArrives(id) ==
  /\ Len(db.requests) < MaxRequests
  /\ db' = [db EXCEPT !.requests = Append(@,
              [ kind |-> "delete", eventId |-> id,
                pc |-> "deleteByEventId", status |-> 0 ])]
  /\ UNCHANGED <<st, voiceKey, st2, call, probe>>

\* CommentModel.deleteByEventId has settled.
CommentsDeleted(r, ok) ==
  /\ db.requests[r].pc = "deleteByEventId"
  /\ db' = IF ~ok THEN Respond(r, 500)
           ELSE [db EXCEPT
                   !.comments = { c \in @ : c.eventId # db.requests[r].eventId },
                   !.requests[r].pc = "deleteById"]
  /\ UNCHANGED <<st, voiceKey, st2, call, probe>>

\* EventModel.deleteById has settled.
EventDeleted(r, ok) ==
  /\ db.requests[r].pc = "deleteById"
  /\ db' = IF ~ok THEN Respond(r, 500)
           ELSE [Respond(r, IF db.requests[r].eventId \in db.events
                            THEN 200 ELSE 404)
                   EXCEPT !.events = @ \ {db.requests[r].eventId}]
  /\ UNCHANGED <<st, voiceKey, st2, call, probe>>

NextStore ==
  \/ EventCreate
  \/ \E id \in GivenIds, content \in BOOLEAN : CommentCreateArrives(id, content)
  \/ \E r \in DOMAIN db.requests, ok \in BOOLEAN : EventLookedUp(r, ok)
  \/ \E r \in DOMAIN db.requests, ok \in BOOLEAN : CommentCreateSettles(r, ok)
  \/ \E id \in EventIds : EventDeleteArrives(id)
  \/ \E r \in DOMAIN db.requests, ok \in BOOLEAN : CommentsDeleted(r, ok)
  \/ \E r \in DOMAIN db.requests, ok \in BOOLEAN : EventDeleted(r, ok)

SpecStore == Init /\ [][NextStore]_vars

\* C30: once every request has been answered, whatever the interleaving of
\* comment creations and event deletions was, every stored comment names an
\* event that is stored.
C30_NoOrphanComment ==
  (\A r \in DOMAIN db.requests : db.requests[r].pc = "done")
    => \A c \in db.comments : c.eventId \in db.events

====
